---- MODULE Spec2Model ----
(***************************************************************************)
(* A model of the l3-37 connection pool: the Queue of idle connections and *)
(* its two counters (src/src/queue.rs), Pool::connection, Pool::put_back   *)
(* (src/src/lib.rs) and the drop of a Conn (src/src/conn.rs).              *)
(*                                                                         *)
(* Every acquirer is a process whose position is a suspension point of the *)
(* async fn Pool::connection (a call still waiting for the mutex is a call *)
(* that has not acted yet).  The MutexGuard `conns` taken at lib.rs:167 is *)
(* a local of the whole function body, so it is held at every later        *)
(* suspension point (connect().await, rx.await) and released only when the *)
(* function returns or its future is dropped.                              *)
(***************************************************************************)
EXTENDS Integers, Sequences, FiniteSets, TLC

\* Bounds of the model.
NumProcs == 2
MaxSize == 2
MaxWaiters == 2
\* Largest min_size / max_size of a Config given to Pool::new under NewSpec.
MaxConfig == 3
\* Threads that call safe_increment concurrently under ReserveSpec.
NumThreads == 3
\* Threads that call the other Queue methods concurrently under QueueSpec.
NumCallers == 2
\* Longest idle store under QueueSpec.
MaxIdle == 2
\* Width of usize in the model (the counters are AtomicUsize and wrap).
UsizeBits == 6

Procs == 1..NumProcs
Threads == 1..NumThreads
Callers == 1..NumCallers
UsizeMod == 2^UsizeBits

NoConn == 0
Free == 0
\* A sender in the waiter list whose receiver has been dropped.
Closed == 0

VARIABLES
    thr,        \* per thread calling the Queue directly: the call in progress, its locals and its last result
    ctor,       \* Pool::new: its position, the connect calls made, the pending and the collected connects
    min_size,   \* Config.min_size
    max_size,   \* Config.max_size
    queue,      \* Queue: [idle, idle_count, total_count]
    waiting,    \* ConnectionPool.waiting: FIFO of oneshot senders (the owner's id, or Closed)
    chan,       \* per acquirer: the value sent on its oneshot channel, if any
    mutex,      \* holder of ConnectionPool.conns: Free or the acquirer that owns the guard
    pc,         \* per acquirer: position in Pool::connection / ownership of a Conn
    conn,       \* per acquirer: the session inside the Conn it holds
    tasks,      \* the spawned put_back tasks that have not run yet
    leaked,     \* sessions inside forgotten Conns
    watch,      \* history: one checked-out session under observation, idle_count before its acquire and what others did since
    last        \* history: the step taken last, with the counters before it

vars == <<thr, ctor, min_size, max_size, queue, waiting, chan, mutex, pc, conn, tasks, leaked, watch, last>>

idle_count == queue.idle_count
total_count == queue.total_count

----------------------------------------------------------------------------
\* AtomicUsize arithmetic (fetch_add / fetch_sub wrap around).

wrapping_add(a, b) == (a + b) % UsizeMod

wrapping_sub(a, b) == (a - b + UsizeMod) % UsizeMod

----------------------------------------------------------------------------
\* Queue (src/src/queue.rs)

Queue_new == [idle |-> <<>>, idle_count |-> 0, total_count |-> 0]

\* store that counts the session in total_count as well.
store_counts_total(q, c) ==
    [q EXCEPT !.idle_count = wrapping_add(@, 1), !.total_count = wrapping_add(@, 1),
              !.idle = Append(@, c)]

\* store that pushes without counting.
store_uncounted(q, c) == [q EXCEPT !.idle = Append(@, c)]

store(q, c) ==
    [q EXCEPT !.idle_count = wrapping_add(@, 1), !.idle = Append(@, c)]

increment(q) == [q EXCEPT !.total_count = wrapping_add(@, 1)]

\* new_conn that stores without counting the session in total_count.
new_conn_uncounted(q, c) == store(q, c)

new_conn(q, c) == increment(store(q, c))

\* get that finds nothing whatever the idle store holds.
get_none(q) == [q |-> q, conn |-> NoConn]

\* get that reads the front record without removing it.
get_peek(q) ==
    IF q.idle = <<>>
    THEN [q |-> q, conn |-> NoConn]
    ELSE [q |-> [q EXCEPT !.idle_count = wrapping_sub(@, 1)], conn |-> Head(q.idle)]

\* get that pops without the fetch_sub.
get_uncounted(q) ==
    IF q.idle = <<>>
    THEN [q |-> q, conn |-> NoConn]
    ELSE [q |-> [q EXCEPT !.idle = Tail(@)], conn |-> Head(q.idle)]

\* try_pop of the SegQueue, then fetch_sub on a hit.
get(q) ==
    IF q.idle = <<>>
    THEN [q |-> q, conn |-> NoConn]
    ELSE [q |-> [q EXCEPT !.idle = Tail(@), !.idle_count = wrapping_sub(@, 1)],
          conn |-> Head(q.idle)]

\* decrement with the fetch_sub on idle_count that queue.rs:148 comments out.
decrement_idle_too(q) ==
    [q EXCEPT !.total_count = wrapping_sub(@, 1), !.idle_count = wrapping_sub(@, 1)]

\* decrement that does nothing: the broken session stays counted.
decrement_skipped(q) == q

decrement(q) == [q EXCEPT !.total_count = wrapping_sub(@, 1)]

\* safe_increment without the bound: the loop condition dropped.
safe_increment_unbounded(q, max) ==
    [q |-> [q EXCEPT !.total_count = q.total_count + 1], ok |-> TRUE]

\* safe_increment with the loop condition off by one (curr_count <= max).
safe_increment_le(q, max) ==
    IF q.total_count <= max
    THEN [q |-> [q EXCEPT !.total_count = q.total_count + 1], ok |-> TRUE]
    ELSE [q |-> q, ok |-> FALSE]

\* The compare-exchange loop.  Every caller in the pool holds the mutex, so the
\* first compare_exchange of a round sees the value just loaded and succeeds.
safe_increment(q, max) ==
    IF q.total_count < max
    THEN [q |-> [q EXCEPT !.total_count = q.total_count + 1], ok |-> TRUE]
    ELSE [q |-> q, ok |-> FALSE]

----------------------------------------------------------------------------
\* Sessions

InHandles == {conn[p] : p \in {r \in Procs : pc[r] = "holding"}}
InTasks == {t.conn : t \in tasks}
InChans == {chan[p] : p \in Procs} \ {NoConn}
InIdle == {queue.idle[i] : i \in DOMAIN queue.idle}

Live == InHandles \cup InTasks \cup InChans \cup InIdle \cup leaked

\* ManageConnection::connect yields a session distinct from every live one.
FreshConn == CHOOSE i \in 1..(Cardinality(Live) + 1) : i \notin Live

----------------------------------------------------------------------------
\* History of a checked-out session (not program state).  Any acquire may be
\* the observed one; one session is observed at a time, from its acquire to
\* its release, leak or loss.

NoHist == [conn |-> NoConn, pre |-> 0, hit |-> FALSE, taken |-> FALSE, stored |-> FALSE]

HistNew(c, pre, hit) == [conn |-> c, pre |-> pre, hit |-> hit, taken |-> FALSE, stored |-> FALSE]

\* Whether a new acquire may become the observed one.
Track == IF watch = NoHist THEN BOOLEAN ELSE {FALSE}

HistOf(c) == IF c # NoConn /\ watch.conn = c THEN watch ELSE NoHist

\* Another acquire took from the idle store / another release stored into it.
HistTaken == IF watch = NoHist THEN watch ELSE [watch EXCEPT !.taken = TRUE]

HistStored == IF watch = NoHist THEN watch ELSE [watch EXCEPT !.stored = TRUE]

\* The record of a step: what ran, for whom, with which session, from which
\* counters (popped: the senders a release took off the waiter list).
Step(op, p, c, h) ==
    [op |-> op, p |-> p, conn |-> c, idle |-> queue.idle_count,
     total |-> queue.total_count, h |-> h, popped |-> 0]

----------------------------------------------------------------------------
\* Pool::new: min_size connects folded into a new Queue with new_conn.

RECURSIVE Pool_new(_)
Pool_new(n) == IF n = 0 THEN Queue_new ELSE new_conn(Pool_new(n - 1), n)

\* Pool::new has returned Ok: n connects were called and collected, all Ok.
Constructed(n) ==
    [pc |-> "ok", calls |-> n, pending |-> {},
     done |-> [k \in 1..n |-> [i |-> k, ok |-> TRUE]], error |-> 0]

\* A thread that is in no Queue call.
NoCall == [pc |-> "idle", op |-> "", curr |-> 0, conn |-> NoConn, ret |-> ""]

Init ==
    /\ max_size \in 0..MaxSize
    /\ min_size \in 0..max_size
    /\ ctor = Constructed(min_size)
    /\ thr = [t \in Threads |-> NoCall]
    /\ queue = Pool_new(min_size)
    /\ waiting = <<>>
    /\ chan = [p \in Procs |-> NoConn]
    /\ mutex = Free
    /\ pc = [p \in Procs |-> "ready"]
    /\ conn = [p \in Procs |-> NoConn]
    /\ tasks = {}
    /\ leaked = {}
    /\ watch = NoHist
    /\ last = [op |-> "new", p |-> 0, conn |-> NoConn, idle |-> 0, total |-> 0, h |-> NoHist,
               popped |-> 0]

----------------------------------------------------------------------------
\* ConnectionPool (inner.rs): the waiter list.

notify_of_connection(w, tx) == Append(w, tx)

try_waiting(w) ==
    IF w = <<>> THEN [w |-> w, tx |-> Closed, some |-> FALSE]
    ELSE [w |-> Tail(w), tx |-> Head(w), some |-> TRUE]

----------------------------------------------------------------------------
\* Pool::connection

\* try_spawn_connection up to its await: the reservation.
try_spawn_connection(q, max) == safe_increment(q, max)

\* The caller polls a new connection() future and lock().await resolves (the
\* mutex is free; otherwise the future stays pending, which changes nothing):
\* the body runs to its next suspension point or to its return.
Connection(p) ==
    /\ pc[p] = "ready"
    /\ mutex = Free
    /\ Len(waiting) < MaxWaiters
    /\ LET r == get(queue) IN
       IF r.conn # NoConn
       THEN /\ queue' = r.q
            /\ conn' = [conn EXCEPT ![p] = r.conn]
            /\ pc' = [pc EXCEPT ![p] = "holding"]
            /\ \E track \in Track :
                   watch' = IF track THEN HistNew(r.conn, queue.idle_count, TRUE)
                            ELSE HistTaken
            /\ last' = Step("hit", p, r.conn, NoHist)
            /\ UNCHANGED <<mutex, waiting>>
       ELSE LET s == try_spawn_connection(r.q, max_size) IN
            IF s.ok
            THEN /\ queue' = s.q
                 /\ pc' = [pc EXCEPT ![p] = "connecting"]
                 /\ mutex' = p
                 /\ last' = Step("reserve", p, NoConn, NoHist)
                 /\ UNCHANGED <<conn, waiting, watch>>
            ELSE /\ queue' = s.q
                 /\ waiting' = notify_of_connection(waiting, p)
                 /\ pc' = [pc EXCEPT ![p] = "waiting"]
                 /\ mutex' = p
                 /\ last' = Step("enroll", p, NoConn, NoHist)
                 /\ UNCHANGED <<conn, watch>>
    /\ UNCHANGED <<thr, ctor, min_size, max_size, chan, tasks, leaked>>

\* The decrement outside the Err arm.
connect_result_always_decrement(q, ok) == decrement(q)

\* The Err arm without its decrement.
connect_result_never_decrement(q, ok) == q

\* The queue after connect() has resolved inside try_spawn_connection.
connect_result(q, ok) == IF ok THEN q ELSE decrement(q)

\* The pending await resolves: connect().await with Ok or Err, or rx.await with
\* the session a put_back sent.  The function returns and the guard is dropped.
\* (The mutex is held since the reservation, so idle_count is still the value
\* the acquire found.)
Connection_resumed(p, ok) ==
    /\ pc[p] \in {"connecting", "waiting"}
    /\ IF pc[p] = "connecting"
       THEN /\ queue' = connect_result(queue, ok)
            /\ IF ok
               THEN /\ conn' = [conn EXCEPT ![p] = FreshConn]
                    /\ pc' = [pc EXCEPT ![p] = "holding"]
                    /\ \E track \in Track :
                           watch' = IF track THEN HistNew(FreshConn, queue.idle_count, FALSE)
                                    ELSE watch
                    /\ last' = Step("connected", p, FreshConn, NoHist)
               ELSE /\ pc' = [pc EXCEPT ![p] = "ready"]
                    /\ last' = Step("connect_err", p, NoConn, NoHist)
                    /\ UNCHANGED <<conn, watch>>
            /\ UNCHANGED chan
       ELSE /\ chan[p] # NoConn
            /\ ok
            /\ conn' = [conn EXCEPT ![p] = chan[p]]
            /\ chan' = [chan EXCEPT ![p] = NoConn]
            /\ pc' = [pc EXCEPT ![p] = "holding"]
            /\ \E track \in Track :
                   watch' = IF track THEN HistNew(chan[p], queue.idle_count, FALSE)
                            ELSE watch
            /\ last' = Step("received", p, chan[p], NoHist)
            /\ UNCHANGED queue
    /\ mutex' = Free
    /\ UNCHANGED <<thr, ctor, min_size, max_size, waiting, tasks, leaked>>

\* The sender of a dropped receiver stays in the waiter list.
close_receiver(w, p) == [i \in DOMAIN w |-> IF w[i] = p THEN Closed ELSE w[i]]

\* The caller drops the future at a suspension point (a timeout elapsed): its
\* locals are dropped, the receiver and the guard among them.
Cancel(p) ==
    /\ pc[p] \in {"connecting", "waiting"}
    /\ pc' = [pc EXCEPT ![p] = "ready"]
    /\ mutex' = IF mutex = p THEN Free ELSE mutex
    /\ waiting' = close_receiver(waiting, p)
    /\ chan' = [chan EXCEPT ![p] = NoConn]
    /\ last' = Step("cancel_" \o pc[p], p, chan[p], NoHist)
    /\ UNCHANGED <<thr, ctor, min_size, max_size, queue, conn, tasks, leaked, watch>>

----------------------------------------------------------------------------
\* Conn

\* Drop for Conn: put_back spawns the task; has_broken is the manager's answer.
DropConn(p, broken) ==
    /\ pc[p] = "holding"
    /\ tasks' = tasks \cup {[conn |-> conn[p], broken |-> broken]}
    /\ conn' = [conn EXCEPT ![p] = NoConn]
    /\ pc' = [pc EXCEPT ![p] = "ready"]
    /\ last' = Step("drop", p, conn[p], NoHist)
    /\ UNCHANGED <<thr, ctor, min_size, max_size, queue, waiting, chan, mutex, leaked, watch>>

\* A forget that gives the session's count back, as a broken release would.
Forget_uncounted(p) ==
    /\ pc[p] = "holding"
    /\ leaked' = leaked \cup {conn[p]}
    /\ conn' = [conn EXCEPT ![p] = NoConn]
    /\ pc' = [pc EXCEPT ![p] = "ready"]
    /\ queue' = decrement(queue)
    /\ watch' = IF watch.conn = conn[p] THEN NoHist ELSE watch
    /\ last' = Step("forget", p, conn[p], NoHist)
    /\ UNCHANGED <<thr, ctor, min_size, max_size, waiting, chan, mutex, tasks>>

\* mem::forget of a Conn: its destructor never runs.
Forget(p) ==
    /\ pc[p] = "holding"
    /\ leaked' = leaked \cup {conn[p]}
    /\ conn' = [conn EXCEPT ![p] = NoConn]
    /\ pc' = [pc EXCEPT ![p] = "ready"]
    /\ watch' = IF watch.conn = conn[p] THEN NoHist ELSE watch
    /\ last' = Step("forget", p, conn[p], NoHist)
    /\ UNCHANGED <<thr, ctor, min_size, max_size, queue, waiting, chan, mutex, tasks>>

----------------------------------------------------------------------------
\* Pool::put_back, the spawned task

\* The loop leaving after the first sender, whether or not its send succeeded.
send_to_waiting_once(w) ==
    LET t == try_waiting(w) IN
    IF ~t.some THEN [w |-> t.w, to |-> Closed] ELSE [w |-> t.w, to |-> t.tx]

\* The while-let loop: pop senders until a send succeeds or the list is empty.
RECURSIVE send_to_waiting(_)
send_to_waiting(w) ==
    LET t == try_waiting(w) IN
    IF ~t.some THEN [w |-> t.w, to |-> Closed]
    ELSE IF t.tx # Closed THEN [w |-> t.w, to |-> t.tx]
    ELSE send_to_waiting(t.w)

\* The task obtains the mutex and runs to its end without suspending.
PutBack(t) ==
    /\ t \in tasks
    /\ mutex = Free
    /\ tasks' = tasks \ {t}
    /\ watch' = IF watch.conn = t.conn THEN NoHist
                ELSE IF ~t.broken /\ send_to_waiting(waiting).to = Closed THEN HistStored
                ELSE watch
    /\ IF t.broken
       THEN /\ queue' = decrement(queue)
            /\ last' = Step("put_back_broken", 0, t.conn, HistOf(t.conn))
            /\ UNCHANGED <<waiting, chan>>
       ELSE LET s == send_to_waiting(waiting) IN
            /\ waiting' = s.w
            /\ IF s.to # Closed
               THEN /\ chan' = [chan EXCEPT ![s.to] = t.conn]
                    /\ last' = [Step("put_back_sent", s.to, t.conn, HistOf(t.conn))
                                  EXCEPT !.popped = Len(waiting) - Len(s.w)]
                    /\ UNCHANGED queue
               ELSE /\ queue' = store(queue, t.conn)
                    /\ last' = [Step("put_back_stored", 0, t.conn, HistOf(t.conn))
                                  EXCEPT !.popped = Len(waiting) - Len(s.w)]
                    /\ UNCHANGED chan
    /\ UNCHANGED <<thr, ctor, min_size, max_size, mutex, pc, conn, leaked>>

----------------------------------------------------------------------------

Next ==
    \/ \E p \in Procs : Connection(p)
    \/ \E p \in Procs, ok \in BOOLEAN : Connection_resumed(p, ok)
    \/ \E p \in Procs : Cancel(p)
    \/ \E p \in Procs, broken \in BOOLEAN : DropConn(p, broken)
    \/ \E p \in Procs : Forget(p)
    \/ \E t \in tasks : PutBack(t)

Spec == Init /\ [][Next]_vars

\* The runtime polls every woken future: a pending await that can resolve does,
\* and a spawned put_back task gets the mutex when it is free often enough.
\* Calling, dropping, forgetting and cancelling are the caller's choice.
FairSpec ==
    /\ Spec
    /\ \A p \in Procs : WF_vars(\E ok \in BOOLEAN : Connection_resumed(p, ok))
    /\ SF_vars(\E t \in tasks : PutBack(t))

----------------------------------------------------------------------------
\* Acquirers that are enrolled with a live receiver.

Enrolled(p) == pc[p] = "waiting" /\ \E i \in DOMAIN waiting : waiting[i] = p

AtCap == queue.idle = <<>> /\ total_count = max_size

----------------------------------------------------------------------------
\* C1: total_count never exceeds max_size and no more than max_size sessions
\* are live; an acquire that finds the idle store empty and total_count =
\* max_size enrolls as a waiter (tail of the waiter list), reserves nothing
\* and starts no connect.
C1_Admission ==
    /\ total_count <= max_size
    /\ Cardinality(Live) <= max_size
    /\ (last.op \in {"hit", "reserve", "enroll"} /\ last.idle = 0 /\ last.total = max_size)
          => /\ last.op = "enroll"
             /\ pc[last.p] = "waiting"
             /\ waiting # <<>>
             /\ waiting[Len(waiting)] = last.p
             /\ total_count = last.total
             /\ conn[last.p] = NoConn

\* A waiter is enrolled in a full pool of at least one session.
C1_Witness ==
    /\ last.op = "enroll"
    /\ max_size >= 1
    /\ total_count = max_size
    /\ Enrolled(last.p)

\* C2: once a handle with a non-broken session has been dropped while an
\* acquire is pending on the wait path, that acquire eventually resolves with
\* a handle (or is abandoned by its caller).
C2_WaiterResolves ==
    \A p \in Procs :
        (Enrolled(p) /\ \E t \in tasks : ~t.broken)
            ~> (pc[p] = "holding" \/ pc[p] = "ready")

\* C3: while the idle store is empty, total_count = max_size and no release
\* is pending, no acquire that starts or is enrolled resolves with a handle;
\* when every session the pool may create is leaked, nobody ever holds one.
C3_NoResolveAtCap ==
    /\ [][(AtCap /\ tasks = {})
            => \A p \in Procs : pc[p] \in {"ready", "waiting"} => pc'[p] # "holding"]_vars
    /\ [](Cardinality(leaked) = max_size => \A p \in Procs : pc[p] # "holding")

\* max_size = 1, the only session is leaked and a second acquire is enrolled.
C3_Witness ==
    /\ max_size = 1
    /\ Cardinality(leaked) = 1
    /\ \E p \in Procs : Enrolled(p)

\* C4: waiters are served in enrollment order: a released non-broken session
\* goes to the first enrolled acquirer that has not cancelled, and that
\* acquirer does receive the next such session.
C4_FifoDelivery ==
    /\ [][\A t \in tasks :
            (PutBack(t) /\ ~t.broken /\ send_to_waiting(waiting).to # Closed)
                => chan'[send_to_waiting(waiting).to] = t.conn]_vars
    /\ \A p \in Procs :
        (Enrolled(p) /\ send_to_waiting(waiting).to = p /\ \E t \in tasks : ~t.broken)
            ~> (chan[p] # NoConn \/ ~Enrolled(p))

\* No acquire is at a suspension point and no release task is pending.
Quiescent == tasks = {} /\ mutex = Free /\ \A p \in Procs : pc[p] \in {"ready", "holding"}

Outstanding == Cardinality({p \in Procs : pc[p] = "holding"})

\* C5: outstanding handles plus idle_count equal total_count, the sessions of
\* leaked handles left out (stated where no operation is under way).
C5_HandlesPlusIdle ==
    Quiescent => Outstanding + idle_count = total_count - Cardinality(leaked)

\* C6: 0 <= idle_count <= total_count, and neither counter has wrapped (a
\* wrapped counter is above every max_size).
C6_CounterOrder ==
    /\ 0 <= idle_count
    /\ idle_count <= total_count
    /\ total_count <= max_size

\* Both counters came down to zero from a warmed-up pool: every initial
\* session was released broken.
C6_Witness ==
    /\ min_size >= 1
    /\ total_count = 0
    /\ last.op = "put_back_broken"

Distinct(f) == \A i, j \in DOMAIN f : i # j => f[i] # f[j]

\* C7: every live session is in exactly one place: the idle store, one
\* waiter's channel, one release task, one handle (or one leaked handle).
C7_SingleOwner ==
    /\ Distinct(queue.idle)
    /\ \A p, r \in Procs : (p # r /\ pc[p] = "holding" /\ pc[r] = "holding") => conn[p] # conn[r]
    /\ \A p, r \in Procs : (p # r /\ chan[p] # NoConn) => chan[p] # chan[r]
    /\ \A t, u \in tasks : t.conn = u.conn => t = u
    /\ InIdle \cap (InChans \cup InTasks \cup InHandles \cup leaked) = {}
    /\ InChans \cap (InTasks \cup InHandles \cup leaked) = {}
    /\ InTasks \cap (InHandles \cup leaked) = {}
    /\ InHandles \cap leaked = {}
    /\ \A p \in Procs : pc[p] = "holding" <=> conn[p] # NoConn

\* In a pool that started empty, two sessions were created, released and
\* stored; one has been taken again while the other stays idle.
C7_Witness ==
    /\ min_size = 0
    /\ last.op = "hit"
    /\ InIdle # {}
    /\ InHandles # {}

\* C8: an acquire that finds the idle store empty and total_count < max_size
\* reserves (total_count + 1) and connects instead of enrolling; the connect
\* can resolve whatever the release tasks do, and with Ok the acquirer holds a
\* session nobody else has, total_count staying as reserved.  With min_size =
\* 1 and max_size = 2, two handles out mean total_count = 2.
C8_LazyGrowth ==
    /\ (last.op \in {"hit", "reserve", "enroll"} /\ last.idle = 0 /\ last.total < max_size)
          => /\ last.op = "reserve"
             /\ pc[last.p] = "connecting"
             /\ total_count = last.total + 1
             /\ \A i \in DOMAIN waiting : waiting[i] # last.p
    /\ \A p \in Procs : pc[p] = "connecting" => ENABLED Connection_resumed(p, TRUE)
    /\ last.op = "connected"
          => /\ pc[last.p] = "holding"
             /\ conn[last.p] = last.conn
             /\ last.conn \notin InIdle \cup InTasks \cup InChans \cup leaked
             /\ \A r \in Procs : r # last.p => conn[r] # last.conn
             /\ total_count = last.total
    /\ (min_size = 1 /\ max_size = 2 /\ Outstanding = 2) => total_count = 2

\* min_size = 1, max_size = 2: two acquires hold a handle each, the second
\* from a connect, and nothing has been released.
C8_Witness ==
    /\ min_size = 1 /\ max_size = 2
    /\ last.op = "connected"
    /\ Outstanding = 2
    /\ tasks = {} /\ leaked = {}
    /\ watch.hit /\ watch.pre = 1 /\ ~watch.taken /\ ~watch.stored
    /\ total_count = 2

\* The frame of an acquire that finds the idle store non-empty.
IdleHitFrame ==
    (last.op \in {"hit", "reserve", "enroll"} /\ last.idle > 0)
        => /\ last.op = "hit"
           /\ idle_count = last.idle - 1
           /\ total_count = last.total
           /\ pc[last.p] = "holding"
           /\ conn[last.p] = last.conn
           /\ watch.conn = last.conn => (watch.hit /\ watch.pre = last.idle)

\* C9 as stated: an acquire that finds the idle store non-empty takes an idle
\* session (idle_count - 1, total_count unchanged, no connect); once its
\* non-broken session has been released with no waiter to take it,
\* idle_count is back at the value before the acquire.
C9_Original ==
    /\ IdleHitFrame
    /\ (last.op = "put_back_stored" /\ last.h.conn # NoConn /\ last.h.hit)
          => (idle_count = last.h.pre /\ total_count = last.total)

\* C9 amended: the same, for a session during whose checkout no other acquire
\* took from the idle store and no other release stored into it.
C9_IdleHitRoundTrip ==
    /\ IdleHitFrame
    /\ (last.op = "put_back_stored" /\ last.h.conn # NoConn /\ last.h.hit
            /\ ~last.h.taken /\ ~last.h.stored)
          => (idle_count = last.h.pre /\ total_count = last.total)

C9_Witness ==
    /\ last.op = "put_back_stored"
    /\ last.h.conn # NoConn
    /\ last.h.hit /\ ~last.h.taken /\ ~last.h.stored
    /\ idle_count = last.h.pre
    /\ max_size = 2 /\ total_count = 2

\* C10 as stated: once the release of a non-broken session has run,
\* idle_count is at least what it was right before that session's acquire.
C10_Original ==
    (last.op \in {"put_back_stored", "put_back_sent"} /\ last.h.conn # NoConn)
        => idle_count >= last.h.pre

\* C10 amended: the same, provided no other acquire took a session from the
\* idle store between that acquire and the release.
C10_RestoresIdle ==
    (last.op \in {"put_back_stored", "put_back_sent"} /\ last.h.conn # NoConn /\ ~last.h.taken)
        => idle_count >= last.h.pre

\* A release ran after another release had stored meanwhile: above the old value.
C10_Witness ==
    /\ last.op = "put_back_stored"
    /\ last.h.conn # NoConn
    /\ ~last.h.taken /\ last.h.stored
    /\ idle_count > last.h.pre

----------------------------------------------------------------------------
\* Acquire/drop pairs only: every connect succeeds, every has_broken answers
\* false, no future is dropped and no handle is forgotten.

NextPairs ==
    \/ \E p \in Procs : Connection(p)
    \/ \E p \in Procs : Connection_resumed(p, TRUE)
    \/ \E p \in Procs : DropConn(p, FALSE)
    \/ \E t \in tasks : PutBack(t)

PairsSpec == Init /\ [][NextPairs]_vars

\* Every handle is dropped and every release task has run.
AllReturned == Quiescent /\ Outstanding = 0

\* The sessions made by a connect after construction (Pool::new made
\* 1..min_size; under PairsSpec no session is ever destroyed).
Grown == Live \ (1..min_size)

\* C11 as stated: after acquire/drop pairs without a broken session or failed
\* connect, once every handle is dropped and every release task has run,
\* total_count and idle_count equal their values right after construction.
C11_Original ==
    AllReturned => (total_count = min_size /\ idle_count = min_size)

\* C11 amended: at that point idle_count = total_count, and total_count is its
\* value right after construction plus the number of sessions that acquires
\* created by a connect (so both are the post-construction values when every
\* acquire was served from the idle store).
C11_RoundTrip ==
    AllReturned =>
        /\ idle_count = total_count
        /\ total_count = min_size + Cardinality(Grown)
        /\ Len(queue.idle) = idle_count

\* A pool built with one session grew by one; both sessions are back.
C11_Witness ==
    /\ AllReturned
    /\ min_size = 1
    /\ Cardinality(Grown) = 1
    /\ last.op = "put_back_stored"

----------------------------------------------------------------------------
\* C12: the release of a session that has_broken reports broken takes exactly
\* one off total_count, leaves idle_count, the idle store, the waiter list and
\* every channel as they were, and the session is gone; an acquire that finds
\* the idle store empty right after it reserves and connects.
C12_BrokenRelease ==
    /\ [][\A t \in tasks :
            (PutBack(t) /\ t.broken)
                => /\ queue'.total_count = queue.total_count - 1
                   /\ queue'.idle_count = queue.idle_count
                   /\ queue'.idle = queue.idle
                   /\ waiting' = waiting
                   /\ chan' = chan]_vars
    /\ [](last.op = "put_back_broken"
            => /\ total_count = last.total - 1
               /\ idle_count = last.idle
               /\ last.conn \notin Live
               /\ mutex = Free
               /\ get(queue).conn = NoConn
                    => try_spawn_connection(get(queue).q, max_size).ok)

\* The only session of a min 1 / max 1 pool was released broken: the pool is
\* empty and has room for one connect.
C12_Witness ==
    /\ last.op = "put_back_broken"
    /\ min_size = 1 /\ max_size = 1
    /\ total_count = 0 /\ idle_count = 0
    /\ queue.idle = <<>>

----------------------------------------------------------------------------
\* C13: when connect fails after the reservation, the acquire returns the
\* error with total_count back at its value before the acquire (the
\* reservation added one, nothing moved while the connect was pending, the Err
\* arm takes one off), idle_count, the idle store and the waiter list as they
\* were, and the pool usable: the mutex is free and the next acquire is served
\* from the idle store or reserves and connects.
C13_ConnectError ==
    /\ [][\A p \in Procs :
            /\ (Connection(p) /\ pc'[p] = "connecting")
                 => /\ queue'.total_count = queue.total_count + 1
                    /\ queue'.idle_count = queue.idle_count
                    /\ waiting' = waiting
            /\ (pc[p] = "connecting" /\ pc'[p] = "connecting")
                 => (queue' = queue /\ waiting' = waiting)
            /\ (pc[p] = "connecting" /\ Connection_resumed(p, FALSE))
                 => /\ queue'.total_count = queue.total_count - 1
                    /\ queue'.idle_count = queue.idle_count
                    /\ queue'.idle = queue.idle
                    /\ waiting' = waiting
                    /\ pc'[p] = "ready"
                    /\ conn'[p] = NoConn]_vars
    /\ [](last.op = "connect_err"
            => /\ total_count = last.total - 1
               /\ idle_count = last.idle
               /\ mutex = Free
               /\ \/ get(queue).conn # NoConn
                  \/ try_spawn_connection(get(queue).q, max_size).ok)

\* A failed connect in a pool of max_size 2 holding one session already.
C13_Witness ==
    /\ last.op = "connect_err"
    /\ max_size = 2
    /\ total_count = 1
    /\ pc[last.p] = "ready"
    /\ \E r \in Procs : pc[r] = "holding"

----------------------------------------------------------------------------
\* C14: when the caller drops the future of an acquire that is suspended in
\* manager.connect, the reservation is released: total_count is back at its
\* value before the acquire (one below the reserved value the cancellation
\* found).
C14_ReservationReleased ==
    last.op = "cancel_connecting" => total_count = last.total - 1

\* The waiters that have not cancelled, by position in the waiter list.
LiveWaiters == {i \in DOMAIN waiting : waiting[i] # Closed}

FirstLiveWaiter == CHOOSE i \in LiveWaiters : \A j \in LiveWaiters : i <= j

----------------------------------------------------------------------------
\* C16: forgetting a handle changes nothing in the pool: no counter moves, no
\* waiter is woken, no release task appears.  The leaked session stays leaked
\* and counted for ever (total_count is at least the number of leaked
\* sessions, idle_count at most the rest), it is in no handle, channel, task
\* or idle slot, and neither counter goes below zero (a wrapped counter is
\* above max_size).
C16_Leak ==
    /\ [][\A p \in Procs :
            Forget(p) => /\ queue' = queue
                         /\ waiting' = waiting
                         /\ chan' = chan
                         /\ tasks' = tasks
                         /\ mutex' = mutex
                         /\ \A r \in Procs : r # p => pc'[r] = pc[r]]_vars
    /\ [][leaked \subseteq leaked']_vars
    /\ [](/\ Cardinality(leaked) <= total_count
          /\ total_count <= max_size
          /\ idle_count <= total_count - Cardinality(leaked)
          /\ leaked \cap (InHandles \cup InChans \cup InTasks \cup InIdle) = {})

\* After a leak in a pool of max_size 2, a later acquire connected and holds a
\* session of its own.
C16_Witness ==
    /\ max_size = 2
    /\ Cardinality(leaked) = 1
    /\ last.op = "connected"
    /\ pc[last.p] = "holding"
    /\ total_count = 2

----------------------------------------------------------------------------
\* Pool::new, step by step.  ctor.done is the Vec that collect() fills: the
\* results of the connects in the order FuturesUnordered completes them (the
\* session of connect i is session i).

pool_vars == <<thr, min_size, max_size, waiting, chan, mutex, pc, conn, tasks, leaked, watch, last>>

\* A collect that drops the failed connects and keeps the rest.
collect_result_lenient(rs) ==
    LET oks == SelectSeq(rs, LAMBDA r : r.ok) IN
    [ok |-> TRUE, conns |-> [k \in 1..Len(oks) |-> oks[k].i], err |-> 0]

\* Result<Vec<_>, _>::from_iter: the Ok values in order, or the first Err,
\* which ends the iteration.
RECURSIVE collect_result(_)
collect_result(rs) ==
    IF rs = <<>> THEN [ok |-> TRUE, conns |-> <<>>, err |-> 0]
    ELSE IF ~Head(rs).ok THEN [ok |-> FALSE, conns |-> <<>>, err |-> Head(rs).i]
    ELSE LET r == collect_result(Tail(rs)) IN
         IF r.ok THEN [r EXCEPT !.conns = <<Head(rs).i>> \o @] ELSE r

\* fold(Queue::new(), |conns, conn| conns.new_conn(conn))
RECURSIVE fold_new_conn(_, _)
fold_new_conn(q, cs) ==
    IF cs = <<>> THEN q ELSE fold_new_conn(new_conn(q, Head(cs)), Tail(cs))

NewInit ==
    /\ max_size \in 0..MaxConfig
    /\ min_size \in 0..MaxConfig
    /\ ctor = [pc |-> "start", calls |-> 0, pending |-> {}, done |-> <<>>, error |-> 0]
    /\ thr = [t \in Threads |-> NoCall]
    /\ queue = Queue_new
    /\ waiting = <<>>
    /\ chan = [p \in Procs |-> NoConn]
    /\ mutex = Free
    /\ pc = [p \in Procs |-> "ready"]
    /\ conn = [p \in Procs |-> NoConn]
    /\ tasks = {}
    /\ leaked = {}
    /\ watch = NoHist
    /\ last = [op |-> "new", p |-> 0, conn |-> NoConn, idle |-> 0, total |-> 0, h |-> NoHist,
               popped |-> 0]

\* The assert, then the iterator that calls connect() min_size times and
\* collects the futures into the FuturesUnordered.
New_start ==
    /\ ctor.pc = "start"
    /\ IF max_size >= min_size
       THEN ctor' = [ctor EXCEPT !.pc = "collecting", !.calls = min_size,
                                 !.pending = 1..min_size]
       ELSE ctor' = [ctor EXCEPT !.pc = "panic"]
    /\ UNCHANGED <<queue, pool_vars>>

\* One of the pending connects completes.
New_connected(i, ok) ==
    /\ ctor.pc = "collecting"
    /\ i \in ctor.pending
    /\ ctor' = [ctor EXCEPT !.pending = @ \ {i},
                            !.done = Append(@, [i |-> i, ok |-> ok])]
    /\ UNCHANGED <<queue, pool_vars>>

\* collect::<Vec<_>>().await has every result: `conns?` returns the first Err,
\* or the sessions are folded into the Queue and the Pool is returned.
New_collected ==
    /\ ctor.pc = "collecting"
    /\ ctor.pending = {}
    /\ LET r == collect_result(ctor.done) IN
       IF r.ok
       THEN /\ queue' = fold_new_conn(Queue_new, r.conns)
            /\ ctor' = [ctor EXCEPT !.pc = "ok"]
       ELSE /\ ctor' = [ctor EXCEPT !.pc = "err", !.error = r.err]
            /\ UNCHANGED queue
    /\ UNCHANGED pool_vars

NewNext ==
    \/ New_start
    \/ \E i \in 1..MaxConfig, ok \in BOOLEAN : New_connected(i, ok)
    \/ New_collected

NewSpec == NewInit /\ [][NewNext]_vars

\* Some collected connect failed.
SomeFailed == \E k \in DOMAIN ctor.done : ~ctor.done[k].ok

FirstFailed == CHOOSE k \in DOMAIN ctor.done :
                   ~ctor.done[k].ok /\ \A j \in 1..(k - 1) : ctor.done[j].ok

\* C17: Pool::new calls manager.connect exactly min_size times; when it
\* returns a pool, idle_count = total_count = min_size, the idle store holds
\* the min_size sessions of those connects, the waiter list is empty (and
\* max_size >= min_size); the counters are those of Pool_new(min_size).
C17_NewPool ==
    /\ ctor.pc \in {"collecting", "ok", "err"} => ctor.calls = min_size
    /\ ctor.pc = "ok"
         => /\ idle_count = min_size
            /\ total_count = min_size
            /\ Len(queue.idle) = min_size
            /\ InIdle = 1..min_size
            /\ waiting = <<>>
            /\ max_size >= min_size
            /\ idle_count = Pool_new(min_size).idle_count
            /\ total_count = Pool_new(min_size).total_count
            /\ ctor.calls = Constructed(min_size).calls

\* Two initial connects completed in the reverse of their call order.
C17_Witness ==
    /\ ctor.pc = "ok"
    /\ min_size = 2 /\ max_size = 3
    /\ queue.idle = <<2, 1>>
    /\ total_count = 2

\* C18: when one of the initial connects fails, Pool::new returns the first
\* error (in the order the connects completed) and no pool: no Queue is
\* built, nothing is counted and no session is kept.
C18_NewFails ==
    (ctor.pc \in {"ok", "err"} /\ SomeFailed)
        => /\ ctor.pc = "err"
           /\ ctor.error = ctor.done[FirstFailed].i
           /\ queue = Queue_new
           /\ InIdle = {}

\* Of three initial connects the first to complete succeeded and the two
\* others failed.
C18_Witness ==
    /\ ctor.pc = "err"
    /\ Len(ctor.done) = 3
    /\ ctor.done[1].ok /\ ~ctor.done[2].ok /\ ~ctor.done[3].ok
    /\ ctor.error = ctor.done[2].i

\* C19: Pool::new with max_size < min_size returns an error result
\* (InvalidConfig) without calling manager.connect.
C19_InvalidConfig ==
    (max_size < min_size /\ ctor.pc # "start")
        => (ctor.pc = "err" /\ ctor.calls = 0)

----------------------------------------------------------------------------
\* C20: an acquirer that is pending on the wait path does not own the mutex:
\* it released it after enrolling its sender, so release tasks, other
\* acquires and total_conns / idle_conns can lock while it waits.
C20_WaiterReleasesMutex ==
    \A p \in Procs : pc[p] = "waiting" => mutex # p

----------------------------------------------------------------------------
\* C21: the release of a non-broken session starts no connect (no acquirer
\* moves, none is suspended in connect because of it) and leaves total_count
\* alone: either the session goes to one waiter's channel with the queue
\* untouched, or it is pushed on the idle store with idle_count + 1.
C21_ReleaseFrame ==
    /\ [][\A t \in tasks :
            (PutBack(t) /\ ~t.broken)
                => /\ queue'.total_count = queue.total_count
                   /\ pc' = pc
                   /\ conn' = conn
                   /\ \/ /\ queue' = queue
                         /\ \E p \in Procs :
                               /\ chan[p] = NoConn
                               /\ chan' = [chan EXCEPT ![p] = t.conn]
                      \/ /\ chan' = chan
                         /\ queue'.idle = Append(queue.idle, t.conn)
                         /\ queue'.idle_count = queue.idle_count + 1]_vars
    /\ [](last.op \in {"put_back_stored", "put_back_sent"}
            => /\ total_count = last.total
               /\ \A p \in Procs : pc[p] # "connecting")

\* A grown pool of max_size 2 with both sessions idle after the second release.
C21_Witness ==
    /\ last.op = "put_back_stored"
    /\ last.popped = 0
    /\ min_size = 0 /\ max_size = 2
    /\ last.idle = 1 /\ idle_count = 2
    /\ last.total = 2 /\ total_count = 2

\* C22: the idle store is never non-empty while a waiter that has not
\* cancelled is enrolled, in particular not when nobody owns the mutex; the
\* waiter list is empty whenever the idle store is not.
C22_NoStall ==
    /\ mutex = Free => ~(queue.idle # <<>> /\ \E p \in Procs : Enrolled(p))
    /\ \A p \in Procs : Enrolled(p) => (queue.idle = <<>> /\ idle_count = 0)
    /\ queue.idle # <<>> => waiting = <<>>

\* Nobody owns the mutex, a waiter had enrolled and cancelled, and the release
\* that ran next took its sender off the list before storing.
C22_Witness ==
    /\ mutex = Free
    /\ last.op = "put_back_stored"
    /\ last.popped = 1
    /\ queue.idle # <<>>
    /\ waiting = <<>>
    /\ \E p \in Procs : pc[p] = "holding"

\* C23: when a broken session is released while a waiter that has not
\* cancelled is pending, that waiter eventually obtains a session (or is
\* abandoned by its caller).
C23_WaiterBelowCap ==
    \A p \in Procs :
        (Enrolled(p) /\ \E t \in tasks : t.broken)
            ~> (pc[p] = "holding" \/ pc[p] = "ready")

----------------------------------------------------------------------------
\* The Queue called directly by concurrent threads, one atomic access or one
\* SegQueue call per step (src/src/queue.rs).

queue_vars == <<ctor, min_size, max_size, waiting, chan, mutex, pc, conn, tasks, leaked, watch>>

\* idle_count.fetch_add that adds nothing.
fetch_add_idle_skipped(q) == q

\* idle_count.fetch_add(1, SeqCst)
fetch_add_idle(q) == [q EXCEPT !.idle_count = wrapping_add(@, 1)]

\* idle.push(Idle::new(conn))
push(q, c) == [q EXCEPT !.idle = Append(@, c)]

\* idle.try_pop()
try_pop(q) ==
    IF q.idle = <<>> THEN [q |-> q, conn |-> NoConn]
    ELSE [q |-> [q EXCEPT !.idle = Tail(@)], conn |-> Head(q.idle)]

\* idle_count.fetch_sub that takes two off.
fetch_sub_idle_twice(q) == [q EXCEPT !.idle_count = wrapping_sub(@, 2)]

\* idle_count.fetch_sub(1, SeqCst)
fetch_sub_idle(q) == [q EXCEPT !.idle_count = wrapping_sub(@, 1)]

\* A plain store of the new value, whatever total_count holds.
compare_exchange_blind(q, current, new) ==
    [q |-> [q EXCEPT !.total_count = new], ok |-> TRUE]

\* total_count.compare_exchange(current, new, SeqCst, SeqCst)
compare_exchange(q, current, new) ==
    IF q.total_count = current
    THEN [q |-> [q EXCEPT !.total_count = new], ok |-> TRUE]
    ELSE [q |-> q, ok |-> FALSE]

\* The records some thread holds: about to be pushed, or just popped.
InThreads == {thr[t].conn : t \in Threads} \ {NoConn}

NewRecord == CHOOSE i \in 1..(Cardinality(InIdle \cup InThreads) + 1) :
                 i \notin InIdle \cup InThreads

Pushing == {t \in Threads : thr[t].pc = "push"}

Popping == {t \in Threads : thr[t].pc = "fetch_sub"}

\* total_count has gone below zero and wrapped.
Wrapped == total_count = UsizeMod - 1

\* The state of everything but the Queue, its callers and its bound.
NoPool ==
    /\ min_size = 0
    /\ thr = [t \in Threads |-> NoCall]
    /\ ctor = Constructed(0)
    /\ waiting = <<>>
    /\ chan = [p \in Procs |-> NoConn]
    /\ mutex = Free
    /\ pc = [p \in Procs |-> "ready"]
    /\ conn = [p \in Procs |-> NoConn]
    /\ tasks = {}
    /\ leaked = {}
    /\ watch = NoHist

\* Queue::new()
QueueInit ==
    /\ max_size = MaxSize
    /\ queue = Queue_new
    /\ NoPool
    /\ last = Step("new", 0, NoConn, NoHist)

\* A call in progress: its name, where it is, and the record it carries.
Call(t, op, at, c) ==
    [thr EXCEPT ![t] = [pc |-> at, op |-> op, curr |-> 0, conn |-> c, ret |-> ""]]

\* The call has returned.
Return(t) == [thr EXCEPT ![t] = NoCall]

\* The record of the call that returned last: its name, with its result.
Returned(op) == [Step(op, 0, NoConn, NoHist) EXCEPT !.idle = 0, !.total = 0]

\* store / new_conn, first half: the fetch_add on idle_count.
Queue_store(t, counted) ==
    /\ thr[t].pc = "idle"
    /\ Len(queue.idle) + Cardinality(Pushing) < MaxIdle
    /\ counted => total_count < MaxSize
    /\ queue' = fetch_add_idle(queue)
    /\ thr' = Call(t, IF counted THEN "new_conn" ELSE "store", "push", NewRecord)
    /\ UNCHANGED <<last, queue_vars>>

\* store, second half: the push; store returns, new_conn goes on to increment.
Queue_push(t) ==
    /\ thr[t].pc = "push"
    /\ queue' = push(queue, thr[t].conn)
    /\ IF thr[t].op = "new_conn"
       THEN /\ thr' = Call(t, "new_conn", "increment", thr[t].conn)
            /\ UNCHANGED last
       ELSE /\ thr' = Return(t)
            /\ last' = Returned("store")
    /\ UNCHANGED queue_vars

\* increment, called directly or as the end of new_conn.
Queue_increment(t) ==
    /\ \/ thr[t].pc = "increment"
       \/ thr[t].pc = "idle" /\ total_count < MaxSize
    /\ queue' = increment(queue)
    /\ thr' = Return(t)
    /\ last' = Returned(IF thr[t].pc = "increment" THEN "new_conn" ELSE "increment")
    /\ UNCHANGED queue_vars

\* decrement: the fetch_sub on total_count.
Queue_decrement(t) ==
    /\ thr[t].pc = "idle"
    /\ ~Wrapped
    /\ queue' = decrement(queue)
    /\ thr' = Return(t)
    /\ last' = Returned("decrement")
    /\ UNCHANGED queue_vars

\* get, first half: try_pop; None returns at once.
Queue_get(t) ==
    /\ thr[t].pc = "idle"
    /\ LET r == try_pop(queue) IN
       /\ queue' = r.q
       /\ IF r.conn = NoConn
          THEN /\ thr' = Return(t)
               /\ last' = Returned("get_none")
          ELSE /\ thr' = Call(t, "get", "fetch_sub", r.conn)
               /\ UNCHANGED last
    /\ UNCHANGED queue_vars

\* get, second half: the fetch_sub on idle_count inside map; Some(conn) returns.
Queue_get_counted(t) ==
    /\ thr[t].pc = "fetch_sub"
    /\ queue' = fetch_sub_idle(queue)
    /\ thr' = Return(t)
    /\ last' = Returned("get_some")
    /\ UNCHANGED queue_vars

QueueNext ==
    \/ \E t \in Callers, counted \in BOOLEAN : Queue_store(t, counted)
    \/ \E t \in Callers : Queue_push(t)
    \/ \E t \in Callers : Queue_increment(t)
    \/ \E t \in Callers : Queue_decrement(t)
    \/ \E t \in Callers : Queue_get(t)
    \/ \E t \in Callers : Queue_get_counted(t)

QueueSpec == QueueInit /\ [][QueueNext]_vars

----------------------------------------------------------------------------
\* Concurrent reservers: every thread calls safe_increment(max_size) at most
\* once on a Queue that counts c sessions (last.total keeps c).

ReserveInit ==
    /\ max_size \in 0..MaxSize
    /\ \E c \in 0..max_size :
           queue = [idle |-> <<>>, idle_count |-> 0, total_count |-> c]
    /\ NoPool
    /\ last = Step("new", 0, NoConn, NoHist)

\* curr_count = self.total(), on entry and after a lost race.
Reserve_load(t) ==
    /\ \/ thr[t].pc = "idle" /\ thr[t].ret = ""
       \/ thr[t].pc = "reload"
    /\ thr' = [thr EXCEPT ![t] = [pc |-> "cas", op |-> "safe_increment",
                                  curr |-> total_count, conn |-> NoConn, ret |-> ""]]
    /\ UNCHANGED <<queue, last, queue_vars>>

\* The loop test and the compare_exchange; Some(()) or None returns.
Reserve_cas(t) ==
    /\ thr[t].pc = "cas"
    /\ IF thr[t].curr < max_size
       THEN LET r == compare_exchange(queue, thr[t].curr, thr[t].curr + 1) IN
            /\ queue' = r.q
            /\ thr' = IF r.ok THEN [thr EXCEPT ![t].pc = "idle", ![t].ret = "some"]
                      ELSE [thr EXCEPT ![t].pc = "reload"]
       ELSE /\ thr' = [thr EXCEPT ![t].pc = "idle", ![t].ret = "none"]
            /\ UNCHANGED queue
    /\ UNCHANGED <<last, queue_vars>>

ReserveNext ==
    \/ \E t \in Threads : Reserve_load(t)
    \/ \E t \in Threads : Reserve_cas(t)

ReserveSpec == ReserveInit /\ [][ReserveNext]_vars

----------------------------------------------------------------------------
\* The threads whose safe_increment returned Some(()) / that have called it.
Succeeded == {t \in Threads : thr[t].ret = "some"}

Reservers == {t \in Threads : thr[t].op = "safe_increment"}

NoCallInProgress == \A t \in Threads : thr[t].pc = "idle"

Min(a, b) == IF a <= b THEN a ELSE b

\* C24: safe_increment(max): a call that returns Some(()) raised total_count
\* by exactly one from a value below max; a call that returns None found
\* total_count >= max and changed nothing; a lost race changes nothing; a call
\* that nobody interferes with does what the pool's atomic safe_increment
\* does.  idle_count and the idle store are never touched.  From
\* total_count = c <= max, total_count = c + (number of successes) <= max
\* throughout, and once n reservers have returned exactly min(n, max - c) of
\* them have succeeded.
C24_Reserve ==
    /\ [][\A t \in Threads :
            Reserve_cas(t)
                => /\ thr'[t].ret = "some"
                        => (total_count < max_size /\ queue'.total_count = total_count + 1)
                   /\ thr'[t].ret = "none" => (total_count >= max_size /\ queue' = queue)
                   /\ thr'[t].pc = "reload" => queue' = queue
                   /\ thr[t].curr = total_count
                        => /\ queue' = safe_increment(queue, max_size).q
                           /\ (thr'[t].ret = "some") = safe_increment(queue, max_size).ok
                           /\ thr'[t].pc = "idle"]_vars
    /\ [][queue'.idle_count = queue.idle_count /\ queue'.idle = queue.idle]_vars
    /\ [](/\ total_count <= max_size
          /\ total_count = last.total + Cardinality(Succeeded))
    /\ [](NoCallInProgress
            => Cardinality(Succeeded) = Min(Cardinality(Reservers), max_size - last.total))

\* Three reservers raced for the one free place of a Queue with max 2: one won.
C24_Witness ==
    /\ NoCallInProgress
    /\ Cardinality(Reservers) = 3
    /\ max_size = 2 /\ last.total = 1
    /\ Cardinality(Succeeded) = 1
    /\ total_count = 2

\* C25: a decrement when total_count = 0 does not change the counter (it
\* panics): total_count never wraps around below zero.
C25_DecrementPanics ==
    [][\A t \in Callers :
          (Queue_decrement(t) /\ total_count = 0) => queue'.total_count = 0]_vars

\* C26: get on an empty idle store returns None and changes nothing; on a
\* non-empty store it removes the front record and returns it, its fetch_sub
\* takes exactly one off idle_count, and total_count is never touched.  The
\* two halves together are the pool's atomic get.
C26_Get ==
    /\ [][\A t \in Callers :
            Queue_get(t)
                => IF queue.idle = <<>>
                   THEN /\ queue' = queue
                        /\ thr'[t] = NoCall
                        /\ last'.op = "get_none"
                   ELSE /\ queue'.idle = Tail(queue.idle)
                        /\ queue'.total_count = queue.total_count
                        /\ thr'[t].pc = "fetch_sub"
                        /\ thr'[t].conn = Head(queue.idle)]_vars
    /\ [][\A t \in Callers :
            Queue_get_counted(t)
                => /\ queue'.idle_count = queue.idle_count - 1
                   /\ queue'.total_count = queue.total_count
                   /\ queue'.idle = queue.idle
                   /\ last'.op = "get_some"]_vars
    /\ [](LET r == try_pop(queue) IN
          get(queue) = IF r.conn = NoConn THEN r
                       ELSE [q |-> fetch_sub_idle(r.q), conn |-> r.conn])

\* A get has returned a record of a Queue that held two: one is left, counted.
C26_Witness ==
    /\ last.op = "get_some"
    /\ NoCallInProgress
    /\ Len(queue.idle) = 1
    /\ idle_count = 1
    /\ total_count = 2

\* C27: idle_count is the number of records in the idle store whenever no
\* store, new_conn or get is in progress; in between it is ahead by one for
\* every store that has counted but not pushed and every get that has popped
\* but not counted.
C27_IdleCount ==
    /\ NoCallInProgress => idle_count = Len(queue.idle)
    /\ idle_count = Len(queue.idle) + Cardinality(Pushing) + Cardinality(Popping)

\* Stores, a new_conn and gets have run; two records are idle and no call is
\* in progress.
C27_Witness ==
    /\ NoCallInProgress
    /\ last.op = "store"
    /\ Len(queue.idle) = 2
    /\ idle_count = 2
    /\ total_count = 1
    /\ Head(queue.idle) > 2

====
